---- MODULE Spec2Model ----
(***************************************************************************)
(* FootySim: the fixture store, the round-robin scheduler, the match       *)
(* simulator's entry points and the two read-only views (standings table,  *)
(* top scorers) of src/footysim/cli.py.                                     *)
(*                                                                         *)
(* Strings that the code compares (club and player names) are sequences of *)
(* ASCII codes, so that str.lower() and string comparison are computed.    *)
(* Dates are day numbers.                                                  *)
(***************************************************************************)
EXTENDS Integers, Sequences, FiniteSets, TLC

VARIABLES
    clubs,         \* Club table: club id -> [season_id, name]
    players,       \* Player table: player id -> [name, club_id]
    fixtures,      \* Fixture table: set of rows
    matches,       \* Match table: set of rows
    goals,         \* Goal table: set of rows
    fixture_seq,   \* last primary key given to a Fixture
    match_seq,     \* last primary key given to a Match
    goal_seq,      \* last primary key given to a Goal
    cmd,           \* the command last run, with its arguments
    echo,          \* its outcome: a message kind or the error raised
    club_names,    \* table: the rows of _get_club_names, in row order
    ordered,       \* table: the rows printed, in order
    rows,          \* topscorers: the rows printed, in order
    created,       \* schedule: the fixtures generate_round_robin created
    proc           \* concurrent workers: each one's command, position and locals

vars == << clubs, players, fixtures, matches, goals, fixture_seq, match_seq,
           goal_seq, cmd, echo, club_names, ordered, rows, created, proc >>

store == << fixtures, matches, goals, fixture_seq, match_seq, goal_seq >>
views == << club_names, ordered, rows, created, proc >>

\* ------------------------------------------------------------------ bounds

MaxGoals == 1        \* goals one side scores in a match
MaxClubs == 5        \* clubs a drawn Club table holds
MaxGoalRows == 3     \* Goal rows a drawn Goal table holds
MaxLimit == 3        \* the largest --limit tried
MaxRng == 1          \* random sources 0..MaxRng handed to the simulator
MaxMatchId == 3      \* Match keys given out before the model stops simulating
MaxStored == 3       \* Fixture rows stored one by one
MaxFixtureId == 24   \* Fixture keys given out before the model stops scheduling

\* ------------------------------------------------------------- reference data

Seasons == {1, 2}            \* the Season rows
SeasonArgs == {1, 2, 3}      \* season_id arguments tried; 3 names no Season

NoCmd == [name |-> "none"]
NoProc == << >>              \* no concurrent worker

\* ---------------------------------------------------------------- sequences

RECURSIVE SortedSeq(_)
SortedSeq(S) ==
    IF S = {} THEN << >>
    ELSE LET m == CHOOSE x \in S : \A y \in S : x <= y
         IN  << m >> \o SortedSeq(S \ {m})

Perms(S) ==
    { p \in [1..Cardinality(S) -> S] : \A x \in S : \E i \in DOMAIN p : p[i] = x }

RECURSIVE Concat(_)
Concat(ss) == IF ss = << >> THEN << >> ELSE Head(ss) \o Concat(Tail(ss))

\* ------------------------------------------------------ Fixture Scheduler

Bye == 0
Week == 7

\* Padded without the bye placeholder
Padded_NoBye(ids) == ids

\* pad with a bye placeholder if n is odd
Padded(ids) == IF Len(ids) % 2 = 1 THEN Append(ids, Bye) ELSE ids

\* rotate all but the first index by r positions
Rotated(idx, r) ==
    LET m == Len(idx)
    IN  [k \in 1..m |->
            IF k = 1 THEN idx[1]
            ELSE idx[2 + ((k - 2 + (m - 1) - r) % (m - 1))]]

\* index i paired with index n-1-i; home/away by the parity of r + i
Pairing(arr, r, i) ==
    LET a == arr[i + 1]
        b == arr[Len(arr) - i]
    IN  IF (r + i) % 2 = 0 THEN << a, b >> ELSE << b, a >>

\* the pairings of round r; a pairing with the bye is never materialized
RoundPairs(idx, r) ==
    LET arr == Rotated(idx, r)
        all == [i \in 1..(Len(arr) \div 2) |-> Pairing(arr, r, i - 1)]
    IN  SelectSeq(all, LAMBDA p : p[1] # Bye /\ p[2] # Bye)

\* one leg: rounds 1-indexed, continuing after the first leg, one week apart;
\* the second leg reverses home and away
LegRounds(idx, leg, start) ==
    LET nr == Len(idx) - 1
    IN  [r \in 1..nr |->
            LET rnd == (leg - 1) * nr + r
                ps  == RoundPairs(idx, r - 1)
            IN  [k \in 1..Len(ps) |->
                    [round |-> rnd,
                     date  |-> start + Week * (rnd - 1),
                     home_club_id |-> IF leg = 1 THEN ps[k][1] ELSE ps[k][2],
                     away_club_id |-> IF leg = 1 THEN ps[k][2] ELSE ps[k][1]]]]

\* the ordered sequence of fixtures of a schedule of `legs` legs
RoundRobin(clubIds, start, legs) ==
    LET idx == Padded(SortedSeq(clubIds))
    IN  Concat([leg \in 1..legs |-> Concat(LegRounds(idx, leg, start))])

\* ------------------------------------------------------------------ strings

\* str.lower() on one ASCII code
LowerChar(ch) == IF ch >= 65 /\ ch <= 90 THEN ch + 32 ELSE ch

\* str.lower()
Lower(s) == [i \in 1..Len(s) |-> LowerChar(s[i])]

\* s < t, by code point, a proper prefix being smaller
StrLess(s, t) ==
    \E k \in 1..Len(t) :
        /\ k <= Len(s) + 1
        /\ \A j \in 1..(k - 1) : s[j] = t[j]
        /\ (k = Len(s) + 1 \/ s[k] < t[k])

\* -------------------------------------------------------- the stored tables

ClubsOf(season_id) == { c \in DOMAIN clubs : clubs[c].season_id = season_id }

FixturesOf(season_id) == { f \in fixtures : f.season_id = season_id }

MatchesOf(season_id) ==
    { m \in matches : \E f \in FixturesOf(season_id) : m.fixture_id = f.id }

FixtureOf(m) == CHOOSE f \in fixtures : f.id = m.fixture_id

\* _ensure_season_exists
SeasonExists(season_id) == season_id \in Seasons

\* _get_club_names: the (id, name) rows of the season, in the order the store
\* returns them (the query has no ORDER BY)
ClubNameRows(season_id) ==
    { [i \in DOMAIN p |-> << p[i], clubs[p[i]].name >>] : p \in Perms(ClubsOf(season_id)) }

\* table's query: Match joined to Fixture, filtered by season, in any row order
MatchRows(season_id) ==
    { [i \in DOMAIN p |->
         << FixtureOf(p[i]).home_club_id, FixtureOf(p[i]).away_club_id,
            p[i].home_goals, p[i].away_goals >>] : p \in Perms(MatchesOf(season_id)) }

\* ------------------------------------------------------ Standings Aggregator

\* the dict comprehension: one all-zero row per key of club_names
ZeroTable(cn) ==
    [cid \in { cn[i][1] : i \in DOMAIN cn } |->
        [name |-> (CHOOSE r \in { cn[i] : i \in DOMAIN cn } : r[1] = cid)[2],
         P |-> 0, W |-> 0, D |-> 0, L |-> 0,
         GF |-> 0, GA |-> 0, GD |-> 0, PTS |-> 0]]

\* FoldMatch with an away win credited to the home club
FoldMatch_AwayWinToHome(t, m) ==
    LET h  == m[1]
        a  == m[2]
        hg == m[3]
        ag == m[4]
        t1 == [t EXCEPT ![h].P = @ + 1, ![a].P = @ + 1,
                        ![h].GF = @ + hg, ![h].GA = @ + ag,
                        ![a].GF = @ + ag, ![a].GA = @ + hg]
    IN  IF hg > ag
        THEN [t1 EXCEPT ![h].W = @ + 1, ![h].PTS = @ + 3, ![a].L = @ + 1]
        ELSE IF hg < ag
        THEN [t1 EXCEPT ![h].W = @ + 1, ![h].PTS = @ + 3, ![a].L = @ + 1]
        ELSE [t1 EXCEPT ![h].D = @ + 1, ![a].D = @ + 1,
                        ![h].PTS = @ + 1, ![a].PTS = @ + 1]

\* FoldMatch with the home club's goals-for assigned instead of added
FoldMatch_GoalsAssigned(t, m) ==
    LET h  == m[1]
        a  == m[2]
        hg == m[3]
        ag == m[4]
        t1 == [t EXCEPT ![h].P = @ + 1, ![a].P = @ + 1,
                        ![h].GF = hg, ![h].GA = @ + ag,
                        ![a].GF = @ + ag, ![a].GA = @ + hg]
    IN  IF hg > ag
        THEN [t1 EXCEPT ![h].W = @ + 1, ![h].PTS = @ + 3, ![a].L = @ + 1]
        ELSE IF hg < ag
        THEN [t1 EXCEPT ![a].W = @ + 1, ![a].PTS = @ + 3, ![h].L = @ + 1]
        ELSE [t1 EXCEPT ![h].D = @ + 1, ![a].D = @ + 1,
                        ![h].PTS = @ + 1, ![a].PTS = @ + 1]

\* the body of the loop over matches
FoldMatch(t, m) ==
    LET h  == m[1]
        a  == m[2]
        hg == m[3]
        ag == m[4]
        t1 == [t EXCEPT ![h].P = @ + 1, ![a].P = @ + 1,
                        ![h].GF = @ + hg, ![h].GA = @ + ag,
                        ![a].GF = @ + ag, ![a].GA = @ + hg]
    IN  IF hg > ag
        THEN [t1 EXCEPT ![h].W = @ + 1, ![h].PTS = @ + 3, ![a].L = @ + 1]
        ELSE IF hg < ag
        THEN [t1 EXCEPT ![a].W = @ + 1, ![a].PTS = @ + 3, ![h].L = @ + 1]
        ELSE [t1 EXCEPT ![h].D = @ + 1, ![a].D = @ + 1,
                        ![h].PTS = @ + 1, ![a].PTS = @ + 1]

RECURSIVE Fold(_, _)
Fold(t, ms) == IF ms = << >> THEN t ELSE Fold(FoldMatch(t, Head(ms)), Tail(ms))

\* t["GD"] = t["GF"] - t["GA"]
WithGD(t) == [cid \in DOMAIN t |-> [t[cid] EXCEPT !.GD = t[cid].GF - t[cid].GA]]

\* Key without the lowercasing of the name
Key_CaseSensitive(t) == << -t.PTS, -t.GD, -t.GF, t.name >>

\* the sort key of a row
Key(t) == << -t.PTS, -t.GD, -t.GF, Lower(t.name) >>

\* tuple comparison of two keys
KeyLess(k1, k2) ==
    \/ k1[1] < k2[1]
    \/ k1[1] = k2[1] /\ k1[2] < k2[2]
    \/ k1[1] = k2[1] /\ k1[2] = k2[2] /\ k1[3] < k2[3]
    \/ k1[1] = k2[1] /\ k1[2] = k2[2] /\ k1[3] = k2[3] /\ StrLess(k1[4], k2[4])

\* sorted(): stable, rows of equal key keep their input order
InsertRow(s, x) ==
    LET k == Cardinality({ i \in DOMAIN s : ~KeyLess(Key(x), Key(s[i])) })
    IN  SubSeq(s, 1, k) \o << x >> \o SubSeq(s, k + 1, Len(s))

RECURSIVE SortedRows(_)
SortedRows(s) ==
    IF s = << >> THEN << >>
    ELSE InsertRow(SortedRows(SubSeq(s, 1, Len(s) - 1)), s[Len(s)])

\* Values with only the clubs that played
Values_PlayedOnly(t, cn) ==
    SelectSeq([i \in DOMAIN cn |-> t[cn[i][1]]], LAMBDA r : r.P > 0)

\* table.values(), in the insertion order of the dict
Values(t, cn) == [i \in DOMAIN cn |-> t[cn[i][1]]]

Standings(cn, ms) == SortedRows(Values(WithGD(Fold(ZeroTable(cn), ms)), cn))

\* the table command
Table(season_id) ==
    /\ cmd' = [name |-> "table", season_id |-> season_id]
    /\ IF ~SeasonExists(season_id)
       THEN echo' = "no_season" /\ club_names' = << >> /\ ordered' = << >>
       ELSE \E cn \in ClubNameRows(season_id) :
              /\ club_names' = cn
              /\ IF cn = << >>
                 THEN echo' = "no_club" /\ ordered' = << >>
                 ELSE \E ms \in MatchRows(season_id) :
                        IF ms = << >>
                        THEN echo' = "no_match" /\ ordered' = << >>
                        ELSE echo' = "table" /\ ordered' = Standings(cn, ms)
    /\ UNCHANGED << clubs, players, store, rows, created, proc >>

\* --------------------------------------------- the standings specification

\* the rows generate_round_robin stores for fixtures fs, keys after `base`
FixtureRows(fs, season_id, base) ==
    { [id |-> base + k, season_id |-> season_id, round |-> fs[k].round,
       date |-> fs[k].date, home_club_id |-> fs[k].home_club_id,
       away_club_id |-> fs[k].away_club_id] : k \in DOMAIN fs }

Unplayed == << >>
Scores == (0..MaxGoals) \X (0..MaxGoals)

\* the names drawn for clubs 1..3: "b", "B", "a" or "b", "a", "b"
DrawnNames == { << << 98 >>, << 66 >>, << 97 >> >>,
                << << 98 >>, << 97 >>, << 98 >> >> }

\* Club tables: clubs 1..3 in season 1 with drawn names, 4 and 5 in season 2
TableClubs ==
    { [c \in 1..5 |-> [season_id |-> IF c <= 3 THEN 1 ELSE 2,
                       name |-> IF c <= 3 THEN nm[c] ELSE << 96 + c >>]] :
      nm \in DrawnNames }

\* the single-leg calendars of both seasons, as schedule stores them
TableFixtures ==
    FixtureRows(RoundRobin({1, 2, 3}, 0, 1), 1, 0)
        \cup FixtureRows(RoundRobin({4, 5}, 0, 1), 2, 3)

\* the Match rows for results res: fixture id -> a score or Unplayed
MatchRowsFor(res) ==
    { [id |-> f, fixture_id |-> f, home_goals |-> res[f][1], away_goals |-> res[f][2]] :
      f \in { g \in DOMAIN res : res[g] # Unplayed } }

InitTable ==
    /\ clubs \in TableClubs
    /\ players = << >>
    /\ fixtures = TableFixtures
    /\ \E res \in [1..4 -> Scores \cup {Unplayed}] :
          /\ res[4] = << 1, 0 >>
          /\ matches = MatchRowsFor(res)
    /\ goals = {}
    /\ fixture_seq = 4 /\ match_seq = 4 /\ goal_seq = 0
    /\ cmd = NoCmd /\ echo = "" /\ club_names = << >>
    /\ ordered = << >> /\ rows = << >> /\ created = << >>
    /\ proc = NoProc

NextTable == \E season_id \in SeasonArgs : Table(season_id)

SpecTable == InitTable /\ [][NextTable]_vars

\* ---- what a club's record is, counted from the stored matches

RECURSIVE SumF(_, _)
SumF(f, S) ==
    IF S = {} THEN 0
    ELSE LET x == CHOOSE y \in S : TRUE IN f[x] + SumF(f, S \ {x})

Involving(c, season_id) ==
    { m \in MatchesOf(season_id) :
        c \in { FixtureOf(m).home_club_id, FixtureOf(m).away_club_id } }

OwnGoals(c, m) == IF FixtureOf(m).home_club_id = c THEN m.home_goals ELSE m.away_goals
OppGoals(c, m) == IF FixtureOf(m).home_club_id = c THEN m.away_goals ELSE m.home_goals

Counted(c, season_id) ==
    LET ms == Involving(c, season_id)
        w  == Cardinality({ m \in ms : OwnGoals(c, m) > OppGoals(c, m) })
        d  == Cardinality({ m \in ms : OwnGoals(c, m) = OppGoals(c, m) })
        l  == Cardinality({ m \in ms : OwnGoals(c, m) < OppGoals(c, m) })
    IN  [P |-> Cardinality(ms), W |-> w, D |-> d, L |-> l,
         GF |-> SumF([m \in ms |-> OwnGoals(c, m)], ms),
         GA |-> SumF([m \in ms |-> OppGoals(c, m)], ms),
         PTS |-> 3 * w + d]

TablePrinted == cmd.name = "table" /\ echo = "table"

\* C1: in the table printed for a season, each club's row has played = the
\* number of the season's matches the club is in, goals-for = the sum of its
\* own goals, goals-against = the sum of its opponents' goals, won / drawn /
\* lost = the number of those matches it scored more / as many / fewer goals
\* in, and points = 3 per win + 1 per draw (nothing for a loss).
C1_FoldAwards ==
    TablePrinted =>
        \E p \in Perms(ClubsOf(cmd.season_id)) :
            /\ Len(ordered) = Len(p)
            /\ \A i \in DOMAIN p :
                 LET r == ordered[i]
                     k == Counted(p[i], cmd.season_id)
                 IN  /\ r.name = clubs[p[i]].name
                     /\ r.P = k.P /\ r.W = k.W /\ r.D = k.D /\ r.L = k.L
                     /\ r.GF = k.GF /\ r.GA = k.GA /\ r.PTS = k.PTS

\* a table in which one club has an away win and another a draw
C1_Witness ==
    /\ TablePrinted
    /\ \E m \in MatchesOf(cmd.season_id) : m.home_goals < m.away_goals
    /\ \E m \in MatchesOf(cmd.season_id) : m.home_goals = m.away_goals
    /\ \E i \in DOMAIN ordered : ordered[i].P = 2 /\ ordered[i].W = 1 /\ ordered[i].D = 1

\* row a is not worse than row b: more points, else a larger goal difference,
\* else more goals-for, else a name not after b's once both are lowercased
NotWorse(a, b) ==
    \/ a.PTS > b.PTS
    \/ a.PTS = b.PTS /\ a.GD > b.GD
    \/ a.PTS = b.PTS /\ a.GD = b.GD /\ a.GF > b.GF
    \/ a.PTS = b.PTS /\ a.GD = b.GD /\ a.GF = b.GF
         /\ ~StrLess(Lower(b.name), Lower(a.name))

\* C2: of any two adjacent rows of the printed table, the earlier one is not
\* worse than the later one under (points desc, goal difference desc,
\* goals-for desc, case-insensitive name asc).
C2_RowsOrdered ==
    TablePrinted =>
        \A i \in 1..(Len(ordered) - 1) : NotWorse(ordered[i], ordered[i + 1])

\* two adjacent rows tied on points, difference and goals-for, placed by
\* their lowercased names against the order of the names as written
C2_Witness ==
    /\ TablePrinted
    /\ \E i \in 1..(Len(ordered) - 1) :
         /\ ordered[i].PTS = ordered[i + 1].PTS
         /\ ordered[i].GD = ordered[i + 1].GD
         /\ ordered[i].GF = ordered[i + 1].GF
         /\ ordered[i].P > 0
         /\ StrLess(ordered[i + 1].name, ordered[i].name)
         /\ StrLess(Lower(ordered[i].name), Lower(ordered[i + 1].name))

\* C3: for the clubs as loaded, every order of the season's match rows gives
\* the very sequence of rows that was printed.
C3_OrderIndependent ==
    TablePrinted =>
        \A ms \in MatchRows(cmd.season_id) : Standings(club_names, ms) = ordered

\* a table folded from three matches, which have six orders
C3_Witness ==
    /\ TablePrinted
    /\ Cardinality(MatchRows(cmd.season_id)) = 6
    /\ \E i \in DOMAIN ordered : ordered[i].GF = 2

\* every club of the season is in exactly one row of rs, by name, and a club
\* with no match has an all-zero row
EveryClubOnce(rs, season_id) ==
    \E p \in Perms(ClubsOf(season_id)) :
        /\ Len(rs) = Len(p)
        /\ \A i \in DOMAIN p :
             /\ rs[i].name = clubs[p[i]].name
             /\ Involving(p[i], season_id) = {} =>
                  /\ rs[i].P = 0 /\ rs[i].W = 0 /\ rs[i].D = 0 /\ rs[i].L = 0
                  /\ rs[i].GF = 0 /\ rs[i].GA = 0 /\ rs[i].GD = 0 /\ rs[i].PTS = 0

TableAsked ==
    /\ cmd.name = "table"
    /\ SeasonExists(cmd.season_id)
    /\ ClubsOf(cmd.season_id) # {}

\* C4 as stated: whatever matches the season has, none included, the table
\* has every club exactly once, all-zero when it has not played.
C4_Original == TableAsked => EveryClubOnce(ordered, cmd.season_id)

\* C4, amended: when the season has at least one match the table has every
\* club exactly once, all-zero when it has not played; when it has none, no
\* row is printed, only the notice that no match was played.
C4_ZeroRows ==
    TableAsked =>
        IF MatchesOf(cmd.season_id) = {}
        THEN echo = "no_match" /\ ordered = << >>
        ELSE echo = "table" /\ EveryClubOnce(ordered, cmd.season_id)

\* a table of one match: the third club is listed with an all-zero row
C4_Witness ==
    /\ TablePrinted
    /\ Cardinality(MatchesOf(cmd.season_id)) = 1
    /\ Len(ordered) = 3
    /\ \E i \in DOMAIN ordered : ordered[i].P = 0 /\ ordered[i].PTS = 0

\* ----------------------------------------------------------- Scorer Leaderboard

\* Scored without the own-goal filter
Scored_OwnGoalsCounted(season_id) ==
    { g \in goals :
        /\ g.player_id \in DOMAIN players
        /\ \E m \in MatchesOf(season_id) : m.id = g.match_id }

\* the joined rows the WHERE clause keeps: goals of the season's matches,
\* by a known player, that are not own goals
Scored(season_id) ==
    { g \in goals :
        /\ g.player_id \in DOMAIN players
        /\ \E m \in MatchesOf(season_id) : m.id = g.match_id
        /\ g.is_own_goal = FALSE }

\* GROUP BY Player.id, Player.name with count(Goal.id)
Grouped(season_id) ==
    { [player_id |-> p, name |-> players[p].name,
       goals |-> Cardinality({ g \in Scored(season_id) : g.player_id = p })] :
      p \in { g.player_id : g \in Scored(season_id) } }

\* ORDER BY count DESC, name ASC: a precedes b
ScorerBefore(a, b) ==
    \/ a.goals > b.goals
    \/ a.goals = b.goals /\ StrLess(a.name, b.name)

\* the orders the store may return the groups in: groups equal on count and
\* name come in either order
OrderedGroups(season_id) ==
    { q \in Perms(Grouped(season_id)) :
        \A i \in 1..(Len(q) - 1) : ~ScorerBefore(q[i + 1], q[i]) }

\* LIMIT
Limited(q, limit) == SubSeq(q, 1, IF limit < Len(q) THEN limit ELSE Len(q))

\* the lines printed: enumerate(rows, start=1)
Printed(q) == [i \in DOMAIN q |-> [rank |-> i, name |-> q[i].name, goals |-> q[i].goals]]

\* the topscorers command
Topscorers(season_id, limit) ==
    /\ cmd' = [name |-> "topscorers", season_id |-> season_id, limit |-> limit]
    /\ IF ~SeasonExists(season_id)
       THEN echo' = "no_season" /\ rows' = << >>
       ELSE \E q \in OrderedGroups(season_id) :
              LET r == Limited(q, limit)
              IN  IF r = << >>
                  THEN echo' = "no_goal" /\ rows' = << >>
                  ELSE echo' = "topscorers" /\ rows' = Printed(r)
    /\ UNCHANGED << clubs, players, store, club_names, ordered, created, proc >>

\* Player table: 1 "b" at club 1, 2 "a" and 3 "b" at club 2, 4 "a" at club 4
ScorerPlayers ==
    << [name |-> << 98 >>, club_id |-> 1], [name |-> << 97 >>, club_id |-> 2],
       [name |-> << 98 >>, club_id |-> 2], [name |-> << 97 >>, club_id |-> 4] >>

FixedClubs ==
    [c \in 1..5 |-> [season_id |-> IF c <= 3 THEN 1 ELSE 2, name |-> << 96 + c >>]]

\* the fixture a goal of player p is scored in: 3 (clubs 1 v 2, season 1) or
\* 4 (clubs 4 v 5, season 2)
GoalFixture(p) == IF ScorerPlayers[p].club_id = 4 THEN 4 ELSE 3

\* a goal counts for the scorer's club, an own goal for its opponent
CreditedHome(g, f) ==
    (players[g.player_id].club_id = f.home_club_id) = (g.is_own_goal = FALSE)

\* the Match of fixture f with the score its goals gs add up to
MatchScored(f, gs) ==
    [id |-> f.id, fixture_id |-> f.id,
     home_goals |-> Cardinality({ g \in gs : g.match_id = f.id /\ CreditedHome(g, f) }),
     away_goals |-> Cardinality({ g \in gs : g.match_id = f.id /\ ~CreditedHome(g, f) })]

InitScorers ==
    /\ clubs = FixedClubs
    /\ players = ScorerPlayers
    /\ fixtures = TableFixtures
    /\ \E n \in 0..MaxGoalRows :
         \E d \in [1..n -> (1..4) \X BOOLEAN] :
            goals = { [id |-> i, match_id |-> GoalFixture(d[i][1]),
                       player_id |-> d[i][1], minute |-> 10 * i,
                       is_own_goal |-> d[i][2]] : i \in 1..n }
    /\ matches = { MatchScored(f, goals) : f \in { g \in fixtures : g.id \in {3, 4} } }
    /\ fixture_seq = 4 /\ match_seq = 4 /\ goal_seq = Cardinality(goals)
    /\ cmd = NoCmd /\ echo = "" /\ club_names = << >>
    /\ ordered = << >> /\ rows = << >> /\ created = << >>
    /\ proc = NoProc

NextScorers ==
    \E season_id \in SeasonArgs, limit \in 0..MaxLimit : Topscorers(season_id, limit)

SpecScorers == InitScorers /\ [][NextScorers]_vars

\* the number of p's Goal records in the season with the own-goal flag false
Tally(p, season_id) ==
    Cardinality({ g \in goals :
        /\ g.player_id = p
        /\ ~g.is_own_goal
        /\ \E m \in matches, f \in fixtures :
              m.id = g.match_id /\ f.id = m.fixture_id /\ f.season_id = season_id })

Scorers(season_id) == { p \in DOMAIN players : Tally(p, season_id) > 0 }

Min(a, b) == IF a < b THEN a ELSE b

\* C5: the leaderboard lists min(limit, number of scorers) players, each a
\* different player with at least one goal that is not an own goal, with
\* exactly that player's number of such goals in the season; the lines are in
\* descending count then ascending name, no player left out would come before
\* the last line, and line i has rank i.
C5_OwnGoalsNotCounted ==
    (cmd.name = "topscorers" /\ SeasonExists(cmd.season_id)) =>
        LET S == Scorers(cmd.season_id)
        IN  /\ Len(rows) = Min(cmd.limit, Cardinality(S))
            /\ (echo = "topscorers") = (rows # << >>)
            /\ \E who \in [DOMAIN rows -> S] :
                 /\ \A i, j \in DOMAIN rows : who[i] = who[j] => i = j
                 /\ \A i \in DOMAIN rows :
                      /\ rows[i].rank = i
                      /\ rows[i].name = players[who[i]].name
                      /\ rows[i].goals = Tally(who[i], cmd.season_id)
                 /\ \A i \in 1..(Len(rows) - 1) :
                      \/ rows[i].goals > rows[i + 1].goals
                      \/ /\ rows[i].goals = rows[i + 1].goals
                         /\ ~StrLess(rows[i + 1].name, rows[i].name)
                 /\ \A p \in S \ { who[i] : i \in DOMAIN rows } :
                      LET l == rows[Len(rows)]
                      IN  cmd.limit > 0 =>
                            \/ l.goals > Tally(p, cmd.season_id)
                            \/ /\ l.goals = Tally(p, cmd.season_id)
                               /\ ~StrLess(players[p].name, l.name)

\* a leaderboard cut to one line out of two scorers, of a season in which a
\* third player has only an own goal
C5_Witness ==
    /\ cmd.name = "topscorers" /\ echo = "topscorers"
    /\ Len(rows) = 1 /\ cmd.limit = 1
    /\ Cardinality(Scorers(cmd.season_id)) = 2
    /\ \E g \in goals :
         /\ g.is_own_goal
         /\ Tally(g.player_id, cmd.season_id) = 0
         /\ g.match_id \in { m.id : m \in MatchesOf(cmd.season_id) }

\* --------------------------------------------------------- the schedule command

\* uq_fixture dropped: no row ever collides
UqFixture_Missing(f, g) == FALSE

\* uq_fixture: rows f and g agree on (season_id, round, home_club_id, away_club_id)
UqFixture(f, g) ==
    /\ f.season_id = g.season_id
    /\ f.round = g.round
    /\ f.home_club_id = g.home_club_id
    /\ f.away_club_id = g.away_club_id

\* the rows that go with the fixtures fs: their Matches and those Matches' Goals
MatchesOn(fs) == { m \in matches : \E f \in fs : f.id = m.fixture_id }
GoalsOn(ms) == { g \in goals : \E m \in ms : m.id = g.match_id }

\* generate_round_robin(session, season_id, start_date, rounds, clear_existing)
GenerateRoundRobin(season_id, start, rounds, clear_existing) ==
    LET ids  == ClubsOf(season_id)
        old  == IF clear_existing THEN FixturesOf(season_id) ELSE {}
        kept == fixtures \ old
        new  == RoundRobin(ids, start, rounds)
        made == FixtureRows(new, season_id, fixture_seq)
    IN  IF Cardinality(ids) < 2
        THEN /\ echo' = "ValidationError"
             /\ created' = << >>
             /\ UNCHANGED store
        ELSE IF \E f \in made, g \in kept : UqFixture(f, g)
        THEN /\ echo' = "ConflictError"
             /\ created' = << >>
             /\ UNCHANGED store
        ELSE /\ fixture_seq + Len(new) <= MaxFixtureId
             /\ echo' = "scheduled"
             /\ created' = [k \in DOMAIN new |->
                              CHOOSE f \in made : f.id = fixture_seq + k]
             /\ fixtures' = kept \cup made
             /\ fixture_seq' = fixture_seq + Len(new)
             /\ matches' = matches \ MatchesOn(old)
             /\ goals' = goals \ GoalsOn(MatchesOn(old))
             /\ UNCHANGED << match_seq, goal_seq >>

\* the schedule command
Schedule(season_id, start, force, rounds) ==
    /\ cmd' = [name |-> "schedule", season_id |-> season_id, start |-> start,
               force |-> force, rounds |-> rounds]
    /\ IF ~SeasonExists(season_id)
       THEN echo' = "no_season" /\ created' = << >> /\ UNCHANGED store
       ELSE IF ClubsOf(season_id) = {}
       THEN echo' = "no_club" /\ created' = << >> /\ UNCHANGED store
       ELSE GenerateRoundRobin(season_id, start, rounds, force)
    /\ UNCHANGED << clubs, players, club_names, ordered, rows, proc >>

StartArgs == {0}

\* Club tables of MaxClubs clubs: the first k in season 1, the rest in season 2
ScheduleClubs ==
    { [c \in 1..MaxClubs |-> [season_id |-> IF c <= k THEN 1 ELSE 2,
                              name |-> << 96 + c >>]] : k \in 0..MaxClubs }

InitSchedule ==
    /\ clubs \in ScheduleClubs
    /\ players = << >>
    /\ fixtures = {} /\ matches = {} /\ goals = {}
    /\ fixture_seq = 0 /\ match_seq = 0 /\ goal_seq = 0
    /\ cmd = NoCmd /\ echo = "" /\ club_names = << >>
    /\ ordered = << >> /\ rows = << >> /\ created = << >>
    /\ proc = NoProc

NextSchedule ==
    \E season_id \in SeasonArgs, start \in StartArgs, force \in BOOLEAN, rounds \in {1, 2} :
        Schedule(season_id, start, force, rounds)

SpecSchedule == InitSchedule /\ [][NextSchedule]_vars

Scheduled == cmd.name = "schedule" /\ echo = "scheduled"

Plays(f, c) == c \in { f.home_club_id, f.away_club_id }

\* C6: a single-leg schedule of a season of n >= 2 clubs creates n*(n-1)/2
\* fixtures, every club of the season is in exactly n-1 of them, and no club
\* is in two fixtures of one round; and with n >= 2 clubs a single-leg
\* generation fails only on a conflict with fixtures already stored.
C6_SingleLegCounts ==
    LET n == Cardinality(ClubsOf(cmd.season_id))
    IN  /\ (Scheduled /\ cmd.rounds = 1) =>
              /\ n >= 2
              /\ 2 * Len(created) = n * (n - 1)
              /\ \A c \in ClubsOf(cmd.season_id) :
                    Cardinality({ k \in DOMAIN created : Plays(created[k], c) }) = n - 1
              /\ \A k1, k2 \in DOMAIN created :
                    (k1 # k2 /\ created[k1].round = created[k2].round) =>
                        \A c \in DOMAIN clubs : ~(Plays(created[k1], c) /\ Plays(created[k2], c))
        /\ (cmd.name = "schedule" /\ SeasonExists(cmd.season_id) /\ n >= 2) =>
              echo \in { "scheduled", "ConflictError" }

\* a single-leg schedule of five clubs: ten fixtures, a bye in every round
C6_Witness ==
    /\ Scheduled /\ cmd.rounds = 1
    /\ Cardinality(ClubsOf(cmd.season_id)) = 5
    /\ Len(created) = 10

\* C8: a schedule command for a season that already has fixtures, without
\* --force, ends in ConflictError and leaves the Fixture table as it was (no
\* fixture created); with --force it succeeds, the season's fixtures afterwards
\* are exactly the fixtures just created, none of the season's earlier rows is
\* left, and the other seasons' fixtures are untouched.
C8_ConflictOrReplace ==
    [][ LET s == cmd'.season_id
        IN  (cmd'.name = "schedule" /\ SeasonExists(s) /\ FixturesOf(s) # {}) =>
               IF cmd'.force
               THEN /\ echo' = "scheduled"
                    /\ { f \in fixtures' : f.season_id = s }
                          = { created'[k] : k \in DOMAIN created' }
                    /\ { f \in fixtures' : f.season_id = s } \cap fixtures = {}
                    /\ { f \in fixtures' : f.season_id # s }
                          = { f \in fixtures : f.season_id # s }
               ELSE /\ echo' = "ConflictError"
                    /\ fixtures' = fixtures
                    /\ created' = << >>
      ]_vars

\* a generation refused with ConflictError in a store whose keys show that an
\* earlier generation replaced a calendar
C8_Witness ==
    /\ cmd.name = "schedule" /\ ~cmd.force /\ echo = "ConflictError"
    /\ FixturesOf(cmd.season_id) # {}
    /\ fixture_seq > Cardinality(fixtures)

\* ------------------------------------------------------------ Match Simulator

Rngs == 0..MaxRng

Roster(c) == { p \in DOMAIN players : players[p].club_id = c }

\* the score and goal events drawn from random source rng, a fixed function
\* of rng: the same source gives the same match
DrawScore(rng) ==
    << rng % (MaxGoals + 1), (rng \div (MaxGoals + 1)) % (MaxGoals + 1) >>

DrawOwnGoal(rng, k) == (rng + k) % 2 = 0

\* the Goal rows of a match of fixture f drawn from rng: the goals credited to
\* the home side, then those credited to the away side, by minute; an own
\* goal is stored with a player of the conceding side
DrawGoals(f, rng, match_id, base) ==
    LET hg == DrawScore(rng)[1]
        ag == DrawScore(rng)[2]
    IN  { [id |-> base + k, match_id |-> match_id, minute |-> 10 * k + rng,
           is_own_goal |-> DrawOwnGoal(rng, k),
           player_id |->
              LET credited == IF k <= hg THEN f.home_club_id ELSE f.away_club_id
                  other    == IF k <= hg THEN f.away_club_id ELSE f.home_club_id
                  side     == IF DrawOwnGoal(rng, k) THEN other ELSE credited
              IN  CHOOSE p \in Roster(side) : \A q \in Roster(side) : p <= q] :
          k \in 1..(hg + ag) }

\* the store as simulate_match sees and leaves it, with the error it raised
Db == [matches |-> matches, goals |-> goals, match_seq |-> match_seq,
       goal_seq |-> goal_seq, error |-> ""]

Played(db, fixture_id) == \E m \in db.matches : m.fixture_id = fixture_id

\* CompareAndCreate without the store's one-Match-per-Fixture check
CompareAndCreate_Unchecked(db, f, rng) ==
    LET gs == DrawGoals(f, rng, db.match_seq + 1, db.goal_seq)
    IN  [db EXCEPT
            !.matches = @ \cup { [id |-> db.match_seq + 1, fixture_id |-> f.id,
                                 home_goals |-> DrawScore(rng)[1],
                                 away_goals |-> DrawScore(rng)[2]] },
            !.goals = @ \cup gs,
            !.match_seq = @ + 1,
            !.goal_seq = @ + Cardinality(gs)]

\* the store's compare-and-create: the Match and all its Goals, or, when the
\* fixture has a Match by now, nothing and AlreadyPlayedError
CompareAndCreate(db, f, rng) ==
    IF Played(db, f.id)
    THEN [db EXCEPT !.error = "AlreadyPlayedError"]
    ELSE LET gs == DrawGoals(f, rng, db.match_seq + 1, db.goal_seq)
         IN  [db EXCEPT
                 !.matches = @ \cup { [id |-> db.match_seq + 1, fixture_id |-> f.id,
                                      home_goals |-> DrawScore(rng)[1],
                                      away_goals |-> DrawScore(rng)[2]] },
                 !.goals = @ \cup gs,
                 !.match_seq = @ + 1,
                 !.goal_seq = @ + Cardinality(gs)]

\* simulate_match(session, fixture_id), with its random source
SimulateMatch(db, fixture_id, rng) ==
    IF ~\E f \in fixtures : f.id = fixture_id
    THEN [db EXCEPT !.error = "NotFoundError"]
    ELSE IF Played(db, fixture_id)
    THEN [db EXCEPT !.error = "AlreadyPlayedError"]
    ELSE CompareAndCreate(db, CHOOSE f \in fixtures : f.id = fixture_id, rng)

\* for f in fixtures: await simulate_match(session, f.id) -- the first error
\* raised ends the loop
RECURSIVE SimulateEach(_, _, _)
SimulateEach(db, fids, rngs) ==
    IF fids = << >> \/ db.error # "" THEN db
    ELSE SimulateEach(SimulateMatch(db, Head(fids), Head(rngs)), Tail(fids), Tail(rngs))

\* ResetDb that deletes the Matches and leaves their Goals
ResetDb_MatchesOnly(db, fs) ==
    [db EXCEPT !.matches = { m \in @ : ~\E f \in fs : f.id = m.fixture_id }]

\* ResetDb that deletes the Goals and leaves the Matches
ResetDb_GoalsOnly(db, fs) ==
    [db EXCEPT !.goals = { g \in @ : ~\E m \in db.matches, f \in fs :
                                        f.id = m.fixture_id /\ m.id = g.match_id }]

\* the reset step: delete(Goal) and delete(Match) for the Matches of fixtures fs
ResetDb(db, fs) ==
    LET match_ids == { m.id : m \in { n \in db.matches : \E f \in fs : f.id = n.fixture_id } }
    IN  [db EXCEPT !.goals = { g \in @ : g.match_id \notin match_ids },
                   !.matches = { m \in @ : m.id \notin match_ids }]

\* ORDER BY round, date, id
FixtureBefore(f, g) ==
    \/ f.round < g.round
    \/ f.round = g.round /\ f.date < g.date
    \/ f.round = g.round /\ f.date = g.date /\ f.id < g.id

RECURSIVE InOrder(_)
InOrder(fs) ==
    IF fs = {} THEN << >>
    ELSE LET f == CHOOSE x \in fs : \A y \in fs \ {x} : FixtureBefore(x, y)
         IN  << f.id >> \o InOrder(fs \ {f})

Commit(db) ==
    /\ matches' = db.matches
    /\ goals' = db.goals
    /\ match_seq' = db.match_seq
    /\ goal_seq' = db.goal_seq

\* the simulate command
Simulate(fixture_id) ==
    /\ cmd' = [name |-> "simulate", fixture_id |-> fixture_id]
    /\ IF ~\E f \in fixtures : f.id = fixture_id
       THEN echo' = "no_fixture" /\ UNCHANGED << matches, goals, match_seq, goal_seq >>
       ELSE \E rng \in Rngs :
              LET db == SimulateMatch(Db, fixture_id, rng)
              IN  /\ db.match_seq <= MaxMatchId
                  /\ echo' = IF db.error # "" THEN db.error ELSE "simulated"
                  /\ Commit(db)
    /\ UNCHANGED << clubs, players, fixtures, fixture_seq, views >>

\* NotYetPlayed that keeps every fixture
NotYetPlayed_All(db, fs) == fs

\* if not reset: the fixtures f for which select(Match.id) by fixture_id
\* finds no row
NotYetPlayed(db, fs) == { f \in fs : ~Played(db, f.id) }

\* the simulate-season command
SimulateSeason(season_id, reset) ==
    /\ cmd' = [name |-> "simulate-season", season_id |-> season_id, reset |-> reset]
    /\ IF ~SeasonExists(season_id)
       THEN echo' = "no_season" /\ UNCHANGED << matches, goals, match_seq, goal_seq >>
       ELSE LET db0  == IF reset THEN ResetDb(Db, FixturesOf(season_id)) ELSE Db
                todo == IF reset THEN FixturesOf(season_id)
                        ELSE NotYetPlayed(db0, FixturesOf(season_id))
            IN  IF FixturesOf(season_id) = {}
                THEN echo' = "no_fixture" /\ Commit(db0)
                ELSE IF todo = {}
                THEN echo' = "nothing_to_simulate" /\ Commit(db0)
                ELSE \E rngs \in [1..Cardinality(todo) -> Rngs] :
                       LET db == SimulateEach(db0, InOrder(todo), rngs)
                       IN  /\ db.match_seq <= MaxMatchId
                           /\ echo' = IF db.error # "" THEN db.error ELSE "season_simulated"
                           /\ Commit(db)
    /\ UNCHANGED << clubs, players, fixtures, fixture_seq, views >>

\* the simulate-round command
SimulateRound(season_id, round, reset) ==
    /\ cmd' = [name |-> "simulate-round", season_id |-> season_id, round |-> round,
               reset |-> reset]
    /\ LET fs == { f \in FixturesOf(season_id) : f.round = round }
       IN  IF fs = {}
           THEN echo' = "no_fixture" /\ UNCHANGED << matches, goals, match_seq, goal_seq >>
           ELSE \E rngs \in [1..Cardinality(fs) -> Rngs] :
                  LET db0 == IF reset THEN ResetDb(Db, fs) ELSE Db
                      db  == SimulateEach(db0, InOrder(fs), rngs)
                  IN  /\ db.match_seq <= MaxMatchId
                      /\ echo' = IF db.error # "" THEN db.error ELSE "round_simulated"
                      /\ Commit(db)
    /\ UNCHANGED << clubs, players, fixtures, fixture_seq, views >>

\* clubs 1 and 2 in season 1, clubs 3 and 4 in season 2
SimClubs ==
    [c \in 1..4 |-> [season_id |-> IF c <= 2 THEN 1 ELSE 2, name |-> << 96 + c >>]]

\* one player per club, player c at club c
SimPlayers == [c \in 1..4 |-> [name |-> << 64 + c >>, club_id |-> c]]

\* season 1 scheduled with two legs (fixtures 1 and 2, rounds 1 and 2), season
\* 2 with one (fixture 3, round 1)
SimFixtures ==
    FixtureRows(RoundRobin({1, 2}, 0, 2), 1, 0)
        \cup FixtureRows(RoundRobin({3, 4}, 0, 1), 2, 2)

FixtureArgs == 1..4          \* fixture_id arguments tried; 4 names no Fixture
RoundArgs == 1..2

Init ==
    /\ clubs = SimClubs
    /\ players = SimPlayers
    /\ fixtures = SimFixtures
    /\ matches = {} /\ goals = {}
    /\ fixture_seq = 3 /\ match_seq = 0 /\ goal_seq = 0
    /\ cmd = NoCmd /\ echo = "" /\ club_names = << >>
    /\ ordered = << >> /\ rows = << >> /\ created = << >>
    /\ proc = NoProc

Next ==
    \/ \E fixture_id \in FixtureArgs : Simulate(fixture_id)
    \/ \E season_id \in SeasonArgs, reset \in BOOLEAN : SimulateSeason(season_id, reset)
    \/ \E season_id \in SeasonArgs, round \in RoundArgs, reset \in BOOLEAN :
          SimulateRound(season_id, round, reset)

Spec == Init /\ [][Next]_vars

MatchOn(ms, fixture_id) == { m \in ms : m.fixture_id = fixture_id }

\* the fixtures a simulate-round or simulate-season command is aimed at
Targeted(c) ==
    IF c.name = "simulate-round"
    THEN { f \in FixturesOf(c.season_id) : f.round = c.round }
    ELSE FixturesOf(c.season_id)

PlayedOf(season_id) == { f \in FixturesOf(season_id) : MatchOn(matches, f.id) # {} }

\* C11: simulate-season without --reset, on a season that exists, raises
\* nothing; afterwards every fixture of the season has exactly one Match; the
\* Match and the Goals of every fixture that had a Match are the same rows as
\* before, and so is every other row there was; one Match is created per
\* fixture that had none, and none on any other fixture; the new Matches take
\* their keys in (round, date, id) order of their fixtures; every new Goal
\* belongs to a new Match; and when every fixture of the season had a Match,
\* no row and no key changes.
C11_SeasonFillsUnplayed ==
    [][ LET s    == cmd'.season_id
            fs   == FixturesOf(s)
            had  == PlayedOf(s)
            newM == matches' \ matches
            newG == goals' \ goals
        IN  (cmd'.name = "simulate-season" /\ ~cmd'.reset /\ SeasonExists(s)) =>
               /\ echo' \in { "no_fixture", "nothing_to_simulate", "season_simulated" }
               /\ \A f \in fs : Cardinality(MatchOn(matches', f.id)) = 1
               /\ \A f \in had :
                     /\ MatchOn(matches', f.id) = MatchOn(matches, f.id)
                     /\ { g \in goals' : \E m \in MatchOn(matches', f.id) : g.match_id = m.id }
                           = { g \in goals : \E m \in MatchOn(matches, f.id) : g.match_id = m.id }
               /\ matches \subseteq matches' /\ goals \subseteq goals'
               /\ { m.fixture_id : m \in newM } = { f.id : f \in fs \ had }
               /\ match_seq' = match_seq + Cardinality(fs \ had)
               /\ \A f1, f2 \in fs \ had :
                     (\/ f1.round < f2.round
                      \/ f1.round = f2.round /\ f1.date < f2.date
                      \/ f1.round = f2.round /\ f1.date = f2.date /\ f1.id < f2.id) =>
                        \A m1 \in MatchOn(matches', f1.id), m2 \in MatchOn(matches', f2.id) :
                            m1.id < m2.id
               /\ \A g \in newG : \E m \in newM : g.match_id = m.id
               /\ (fs # {} /\ had = fs) =>
                     /\ echo' = "nothing_to_simulate"
                     /\ matches' = matches /\ goals' = goals
                     /\ match_seq' = match_seq /\ goal_seq' = goal_seq
      ]_vars

\* simulate-season without --reset has just filled season 1, whose second
\* round had been played first: the round-2 Match keeps key 1 and its Goal,
\* the round-1 Match is the new one
C11_Witness ==
    /\ cmd.name = "simulate-season" /\ ~cmd.reset /\ cmd.season_id = 1
    /\ echo = "season_simulated"
    /\ \E f1, f2 \in FixturesOf(1) :
         /\ f1.round = 1 /\ f2.round = 2
         /\ \E m \in MatchOn(matches, f2.id) : m.id = 1 /\ GoalsOn({m}) # {}
         /\ \E m \in MatchOn(matches, f1.id) : m.id = 2

\* C12: a simulate-round or simulate-season command with --reset leaves none
\* of the rows that were Matches of the targeted fixtures (that round of that
\* season, or that whole season) and none of the Goals of those Matches; of
\* the rows there were, exactly the other Matches and the other Goals are
\* still there, so the Matches and Goals of every other round or season are
\* unchanged; no Goal that is left, or created, is without its Match; and the
\* Fixture table is unchanged.
C12_ResetDeletesTargeted ==
    [][ LET c    == cmd'
            T    == Targeted(c)
            oldM == { m \in matches : \E f \in T : f.id = m.fixture_id }
            oldG == { g \in goals : \E m \in oldM : m.id = g.match_id }
        IN  (/\ c.name \in { "simulate-round", "simulate-season" }
             /\ c.reset
             /\ (c.name = "simulate-season" => SeasonExists(c.season_id))) =>
               /\ matches \cap matches' = matches \ oldM
               /\ goals \cap goals' = goals \ oldG
               /\ \A m \in matches' : m.id \notin { o.id : o \in oldM }
               /\ \A g \in goals' : g.id \notin { o.id : o \in oldG }
               /\ { m \in matches' : \A f \in T : f.id # m.fixture_id }
                     = { m \in matches : \A f \in T : f.id # m.fixture_id }
               /\ \A g \in goals' : \E m \in matches' : m.id = g.match_id
               /\ \A g \in goals \cap goals' : \E m \in matches \cap matches' : m.id = g.match_id
               /\ fixtures' = fixtures /\ fixture_seq' = fixture_seq
      ]_vars

\* simulate-round --reset on round 1 of season 1 has replaced that round's
\* Match (key 2, now key 3) while the round-2 Match, key 1, and its Goal are
\* still there, and the Goal of the deleted Match is gone
C12_Witness ==
    /\ cmd.name = "simulate-round" /\ cmd.reset
    /\ cmd.season_id = 1 /\ cmd.round = 1
    /\ echo = "round_simulated"
    /\ \E f1, f2 \in FixturesOf(1) :
         /\ f1.round = 1 /\ f2.round = 2
         /\ \E m \in MatchOn(matches, f2.id) : m.id = 1 /\ GoalsOn({m}) # {}
         /\ \E m \in MatchOn(matches, f1.id) : m.id = 3
    /\ goal_seq > Cardinality(goals)

\* ------------------------------------------------------------ the Fixture store

\* the insert of one Fixture row: refused by uq_fixture when a stored row has
\* the same (season_id, round, home_club_id, away_club_id)
StoreFixture(season_id, round, date, home, away) ==
    LET row == [id |-> fixture_seq + 1, season_id |-> season_id, round |-> round,
                date |-> date, home_club_id |-> home, away_club_id |-> away]
    IN  /\ fixture_seq < MaxStored
        /\ cmd' = [name |-> "store", row |-> row]
        /\ IF \E g \in fixtures : UqFixture(row, g)
           THEN echo' = "IntegrityError" /\ UNCHANGED << fixtures, fixture_seq >>
           ELSE echo' = "stored" /\ fixtures' = fixtures \cup {row}
                                 /\ fixture_seq' = fixture_seq + 1
        /\ UNCHANGED << clubs, players, matches, goals, match_seq, goal_seq, views >>

InitStore ==
    /\ clubs = SimClubs
    /\ players = SimPlayers
    /\ fixtures = {} /\ matches = {} /\ goals = {}
    /\ fixture_seq = 0 /\ match_seq = 0 /\ goal_seq = 0
    /\ cmd = NoCmd /\ echo = "" /\ club_names = << >>
    /\ ordered = << >> /\ rows = << >> /\ created = << >>
    /\ proc = NoProc

NextStore ==
    \E season_id \in Seasons, round \in RoundArgs, date \in StartArgs :
        \E home, away \in ClubsOf(season_id) :
            home # away /\ StoreFixture(season_id, round, date, home, away)

SpecStore == InitStore /\ [][NextStore]_vars

\* C9 as stated: no two stored fixtures of one season and round involve the
\* same two clubs, whichever of them is home.
C9_Original ==
    \A f, g \in fixtures :
        (/\ f.season_id = g.season_id
         /\ f.round = g.round
         /\ { f.home_club_id, f.away_club_id } = { g.home_club_id, g.away_club_id })
        => f = g

\* C9, amended: no two stored fixtures have the same season, round, home club
\* and away club; the pairing is unique as an ordered pair only.
C9_OrderedPairingUnique ==
    \A f, g \in fixtures :
        (/\ f.season_id = g.season_id
         /\ f.round = g.round
         /\ f.home_club_id = g.home_club_id
         /\ f.away_club_id = g.away_club_id)
        => f = g

\* (season, r, B, A) stored while (season, r, A, B) is there, and a second
\* (season, r, A, B) refused
C9_Witness ==
    /\ cmd.name = "store" /\ echo = "IntegrityError"
    /\ \E f, g \in fixtures :
         /\ f.season_id = g.season_id /\ f.round = g.round
         /\ f.home_club_id = g.away_club_id /\ f.away_club_id = g.home_club_id
         /\ f.season_id = cmd.row.season_id /\ f.round = cmd.row.round
         /\ f.home_club_id = cmd.row.home_club_id

\* ------------------------------------------------- concurrent simulation

Workers == {1, 2}

Idle == [pc |-> "idle", cmd |-> NoCmd, scan |-> << >>, todo |-> << >>, rng |-> 0,
         made |-> {}, err |-> 0, err_at |-> ""]

\* a worker starts simulate-season without --reset: the season's fixtures, in
\* order, are about to be filtered
BeginSeason(w, season_id) ==
    /\ proc[w].pc = "idle"
    /\ SeasonExists(season_id)
    /\ FixturesOf(season_id) # {}
    /\ proc' = [proc EXCEPT ![w] = [@ EXCEPT
                  !.pc = "filter",
                  !.cmd = [name |-> "simulate-season", season_id |-> season_id],
                  !.scan = InOrder(FixturesOf(season_id))]]
    /\ UNCHANGED << clubs, players, store, cmd, echo, club_names, ordered, rows, created >>

\* a worker starts simulate on a fixture it found
BeginSimulate(w, fixture_id) ==
    /\ proc[w].pc = "idle"
    /\ \E f \in fixtures : f.id = fixture_id
    /\ proc' = [proc EXCEPT ![w] = [@ EXCEPT
                  !.pc = "check",
                  !.cmd = [name |-> "simulate", fixture_id |-> fixture_id],
                  !.todo = << fixture_id >>]]
    /\ UNCHANGED << clubs, players, store, cmd, echo, club_names, ordered, rows, created >>

\* one query of the filter: the next fixture is kept when it has no Match
Filter(w) ==
    /\ proc[w].pc = "filter"
    /\ LET p == proc[w]
       IN  proc' = [proc EXCEPT ![w] =
              IF p.scan = << >>
              THEN [p EXCEPT !.pc = IF p.todo = << >> THEN "done" ELSE "check"]
              ELSE [p EXCEPT !.scan = Tail(p.scan),
                             !.todo = IF Played(Db, Head(p.scan)) THEN p.todo
                                      ELSE Append(p.todo, Head(p.scan))]]
    /\ UNCHANGED << clubs, players, store, cmd, echo, club_names, ordered, rows, created >>

\* simulate_match, first half: the precondition check, and the draw
Check(w) ==
    /\ proc[w].pc = "check"
    /\ LET p == proc[w]
           f == Head(p.todo)
       IN  IF Played(Db, f)
           THEN proc' = [proc EXCEPT ![w] = [p EXCEPT !.pc = "failed", !.err = f,
                                                       !.err_at = "check"]]
           ELSE \E rng \in Rngs :
                  proc' = [proc EXCEPT ![w] = [p EXCEPT !.pc = "create", !.rng = rng]]
    /\ UNCHANGED << clubs, players, store, cmd, echo, club_names, ordered, rows, created >>

\* simulate_match, second half: the store's compare-and-create
Create(w) ==
    /\ proc[w].pc = "create"
    /\ LET p  == proc[w]
           f  == CHOOSE g \in fixtures : g.id = Head(p.todo)
           db == CompareAndCreate(Db, f, p.rng)
       IN  /\ Commit(db)
           /\ proc' = [proc EXCEPT ![w] =
                 IF db.error # ""
                 THEN [p EXCEPT !.pc = "failed", !.err = f.id, !.err_at = "create"]
                 ELSE [p EXCEPT !.made = @ \cup {f.id},
                                !.todo = Tail(p.todo),
                                !.pc = IF Tail(p.todo) = << >> THEN "done" ELSE "check"]]
    /\ UNCHANGED << clubs, players, fixtures, fixture_seq, cmd, echo, club_names,
                    ordered, rows, created >>

InitConc ==
    /\ clubs = SimClubs
    /\ players = SimPlayers
    /\ fixtures = SimFixtures
    /\ matches = {} /\ goals = {}
    /\ fixture_seq = 3 /\ match_seq = 0 /\ goal_seq = 0
    /\ cmd = NoCmd /\ echo = "" /\ club_names = << >>
    /\ ordered = << >> /\ rows = << >> /\ created = << >>
    /\ proc = [w \in Workers |-> Idle]

NextConc ==
    \E w \in Workers :
        \/ \E season_id \in Seasons : BeginSeason(w, season_id)
        \/ \E fixture_id \in FixtureArgs : BeginSimulate(w, fixture_id)
        \/ Filter(w)
        \/ Check(w)
        \/ Create(w)

SpecConc == InitConc /\ [][NextConc]_vars

\* the fixtures worker w has finished a simulate_match call on
Tried(w) == proc[w].made \cup (IF proc[w].err # 0 THEN { proc[w].err } ELSE {})

\* C10: whatever the interleaving, no fixture has more than one Match, each
\* Match was created by exactly one worker, a worker that got
\* AlreadyPlayedError on a fixture did not create that fixture's Match while
\* the other worker did, and of two workers that both finished simulating one
\* fixture exactly one created its Match and the other got AlreadyPlayedError.
C10_OneMatchPerFixture ==
    /\ \A f \in fixtures : Cardinality(MatchOn(matches, f.id)) <= 1
    /\ \A f \in fixtures :
          Cardinality({ w \in Workers : f.id \in proc[w].made })
              = Cardinality(MatchOn(matches, f.id))
    /\ \A w \in Workers :
          proc[w].err # 0 =>
              /\ proc[w].pc = "failed"
              /\ proc[w].err \notin proc[w].made
              /\ \E v \in Workers \ {w} : proc[w].err \in proc[v].made
    /\ \A f \in fixtures :
          (\A w \in Workers : f.id \in Tried(w)) =>
              /\ Cardinality({ w \in Workers : f.id \in proc[w].made }) = 1
              /\ Cardinality({ w \in Workers : proc[w].err = f.id }) = 1

\* two simulate-season runs that both kept a fixture as unplayed and both
\* passed the precondition check: one created the Match, the other was
\* refused by the store
C10_Witness ==
    \E w, v \in Workers :
        /\ w # v
        /\ proc[w].cmd.name = "simulate-season" /\ proc[v].cmd.name = "simulate-season"
        /\ proc[w].pc = "failed" /\ proc[w].err_at = "create"
        /\ proc[w].err \in proc[v].made

====
